---- MODULE Spec2Model ----
(***************************************************************************)
(* Model of hourly_report.py: the 3-hour payment report pipeline.          *)
(*                                                                         *)
(*   __main__ : path checks -> glob -> merge_files -> extract_debitor_     *)
(*              details -> extract_creditor_details -> post_processing ->  *)
(*              save_report                                                *)
(*                                                                         *)
(* The corpus is a sequence of raw rows (records of strings, the missing   *)
(* value being NA).  An aggregate frame is its column labels and its rows  *)
(* of cells; a percentage text "12.34%" is held as its value in hundredths *)
(* of a percent, Pct(1234).  Exceptions end the run: nothing catches them. *)
(***************************************************************************)
EXTENDS Integers, Sequences, FiniteSets, TLC

VARIABLES
    pc,         \* position of __main__
    files,      \* all_files: what glob found, each entry the sheet's content
    i,          \* merge_files: loop index, number of files already appended
    data,       \* merge_files: the accumulated frame (the Unified Corpus)
    df_debit,   \* result of extract_debitor_details
    df_credit,  \* result of extract_creditor_details
    df_report,  \* result of post_processing
    written,    \* output files present in target_path
    failed,     \* stage whose exception ended the run, "none" while running
    err         \* the exception's type

vars == <<pc, files, i, data, df_debit, df_credit, df_report, written, failed, err>>

-----------------------------------------------------------------------------
(* Bounds of the model *)

\* at most this many sheets in the source folder
MaxFiles == 2
\* at most this many rows over all sheets together
MaxRows == 3

-----------------------------------------------------------------------------
(* Generic helpers *)

RECURSIVE SumSeq(_)
SumSeq(s) == IF s = <<>> THEN 0 ELSE Head(s) + SumSeq(Tail(s))

Range(s) == {s[k] : k \in 1..Len(s)}

\* the positions of s holding v, ascending
Positions(s, v) == {k \in 1..Len(s) : s[k] = v}

RemoveAt(s, k) == SubSeq(s, 1, k - 1) \o SubSeq(s, k + 1, Len(s))

SeqsUpTo(S, n) == UNION {[1..k -> S] : k \in 0..n}

-----------------------------------------------------------------------------
(* The label dictionaries (the entries the modelled extracts can hit) *)

\* a missing cell of a sheet (numpy NaN)
NA == "<NA>"

STATUSES ==
    [s \in {"Declined", "Rejected", "Returned", "Posted", "CR_PARTIC_NAME"} |-> s]

SUB_STATUSES ==
    [s \in {"Duplication", "Success", "Lack of funds"} |->
        CASE s = "Duplication"   -> " Duplication"
          [] s = "Success"       -> " Success"
          [] s = "Lack of funds" -> " Lack of Funds"]

-----------------------------------------------------------------------------
(* Strings.  TLC cannot take a string apart, so every string the string    *)
(* operations of the code meet is listed with its pieces: the separator    *)
(* ".", the quote "'" and the runs of other characters between them.       *)

Pieces ==
    [s \in {"", "Lack of funds", "'Lack of funds'.1", "'Lack of funds'",
            "Lack of funds.2", "Success", "foo"} |->
        CASE s = ""                  -> <<>>
          [] s = "Lack of funds"     -> <<"Lack of funds">>
          [] s = "'Lack of funds'.1" -> <<"'", "Lack of funds", "'", ".", "1">>
          [] s = "'Lack of funds'"   -> <<"'", "Lack of funds", "'">>
          [] s = "Lack of funds.2"   -> <<"Lack of funds", ".", "2">>
          [] s = "Success"           -> <<"Success">>
          [] s = "foo"               -> <<"foo">>]

\* the string made of the pieces p
Str(p) == CHOOSE s \in DOMAIN Pieces : Pieces[s] = p

\* s.rsplit('.', 1)[0]: s up to its last '.', all of s when it has none
RsplitDotHead(s) ==
    LET p == Pieces[s]
        dots == Positions(p, ".")
    IN  IF dots = {} THEN s
        ELSE Str(SubSeq(p, 1, (CHOOSE k \in dots : \A j \in dots : j <= k) - 1))

\* s.replace("'", "")
StripQuotes(s) == Str(SelectSeq(Pieces[s], LAMBDA c : c # "'"))

-----------------------------------------------------------------------------
(* Collation: sorted() order of the strings that can become a pivot key *)

NameOrder == <<"", "A", "B", "C">>
StatusOrder == <<"", "Declined", "Posted", "Reversed">>
MotiveOrder == <<"", "'Lack of funds'.1", "Lack of funds.2", "Success", "foo">>

\* all (status, motive) pairs in lexicographic order
PairOrder ==
    [k \in 1..(Len(StatusOrder) * Len(MotiveOrder)) |->
        <<StatusOrder[((k - 1) \div Len(MotiveOrder)) + 1],
          MotiveOrder[((k - 1) % Len(MotiveOrder)) + 1]>>]

-----------------------------------------------------------------------------
(* The extracts *)

Row(id, db, cr, st, op, mo) ==
    [ENDTOENDID |-> id, DB_PARTIC_NAME |-> db, CR_PARTIC_NAME |-> cr,
     TR_STATUS_NAME |-> st, BANK_OP_CODE |-> op, REJECT_MOTIVE_DESCRITION |-> mo]

\* the rows a sheet is made of
RowPool ==
    { Row("e1", "A", "B", "Posted",   "CTWA", NA),
      Row("e2", "B", "A", "Declined", "CTWA", "'Lack of funds'.1"),
      Row("e3", "A", "A", "Declined", "CTAA", "Lack of funds.2"),
      Row("e4", NA,  "B", "Posted",   "CTWW", "Success"),
      Row(NA,   "C", "B", "Reversed", NA,     "foo"),
      Row("e6", "A", "C", "Posted",   "CSDC", NA),
      Row("e7", "B", "C", "Declined", "PMCT", "'Lack of funds'.1"),
      Row("e8", "C", "C", "Posted",   "CTWA", "foo") }

\* a sheet: its rows, and whether it has the six required columns
Sheet(ok, rows) == [columns_ok |-> ok, rows |-> rows]

\* the ways to cut the rows s into n consecutive sheets
Cuts(s, n) ==
    {c \in [0..n -> 0..Len(s)] :
        /\ c[0] = 0
        /\ c[n] = Len(s)
        /\ \A k \in 1..n : c[k - 1] <= c[k]}

\* the rows s as n consecutive sheets cut at c; the sheets marked in b lack
\* a required column
Folder(s, n, c, b) ==
    [k \in 1..n |-> Sheet(~b[k], SubSeq(s, c[k - 1] + 1, c[k]))]

-----------------------------------------------------------------------------
(* Cells of the aggregate frames.  A cell is a number, a string, a         *)
(* percentage text ("75.00%" is Pct(7500)), the text "nan%" or NaN.        *)

Num(n)  == [t |-> "num", n |-> n, s |-> ""]
Text(s) == [t |-> "str", n |-> 0, s |-> s]
Pct(h)  == [t |-> "pct", n |-> h, s |-> ""]
PctNaN  == [t |-> "pct", n |-> 0, s |-> "nan"]
NaN     == [t |-> "nan", n |-> 0, s |-> ""]

\* a frame: its column labels and its rows, each row one cell per column
Frame(columns, rows) == [columns |-> columns, rows |-> rows]
EmptyFrame == Frame(<<>>, <<>>)

\* the cells of column k
Column(df, k) == [r \in 1..Len(df.rows) |-> df.rows[r][k]]

\* a column sum(numeric_only=True) takes: no string in it
IsNumeric(df, k) == \A r \in 1..Len(df.rows) : df.rows[r][k].t \in {"num", "nan"}

\* what a call gives: a value, or the exception it raised
Return(v) == [raised |-> "none", value |-> v]
Raise(e)  == [raised |-> e, value |-> EmptyFrame]

-----------------------------------------------------------------------------
(* filter_file, merge_files *)

\* faulty variant: only "CSDC" is excluded
filter_file_keep_pmct(file) ==
    IF ~file.columns_ok THEN Raise("KeyError")
    ELSE Return(SelectSeq(file.rows, LAMBDA r : r.BANK_OP_CODE # "CSDC"))

\* lines 110-116: the six columns, then the rows whose BANK_OP_CODE is
\* neither "CSDC" nor "PMCT" (NaN != "CSDC" is True: such a row stays)
filter_file(file) ==
    IF ~file.columns_ok THEN Raise("KeyError")
    ELSE Return(SelectSeq(file.rows,
                    LAMBDA r : r.BANK_OP_CODE # "CSDC" /\ r.BANK_OP_CODE # "PMCT"))

\* faulty variant: the missing values stay
fillna_nothing(rows, v) == rows

\* DataFrame.fillna(v) of a frame of raw rows
fillna(rows, v) ==
    [k \in 1..Len(rows) |->
        [f \in DOMAIN rows[k] |-> IF rows[k][f] = NA THEN v ELSE rows[k][f]]]

-----------------------------------------------------------------------------
(* pd.pivot_table(..., aggfunc='count') *)

\* groupby drops the rows with a missing key
Grouped(df, keys) == SelectSeq(df, LAMBDA r : \A f \in keys : r[f] # NA)

\* count: the rows of the group whose value is not missing
Count(df, index, name, key, k) ==
    Cardinality({r \in 1..Len(df) :
        /\ df[r][index] = name
        /\ \A j \in 1..Len(key) : df[r][key[j]] = k[j]
        /\ df[r].ENDTOENDID # NA})

\* a pivot cell: the group's count, NaN where the group does not exist
PivotCell(df, index, name, key, k) ==
    IF \E r \in 1..Len(df) :
          df[r][index] = name /\ \A j \in 1..Len(key) : df[r][key[j]] = k[j]
    THEN Num(Count(df, index, name, key, k))
    ELSE NaN

\* the sorted index values of the pivot
PivotIndex(df, index) ==
    SelectSeq(NameOrder, LAMBDA n : \E r \in 1..Len(df) : df[r][index] = n)

-----------------------------------------------------------------------------
(* extract_debitor_details *)

\* frame.fillna(0)
FillZero(df) ==
    Frame(df.columns,
          [r \in 1..Len(df.rows) |->
              [k \in 1..Len(df.rows[r]) |->
                  IF df.rows[r][k] = NaN THEN Num(0) ELSE df.rows[r][k]]])

\* frame.rename(columns=m), m a function from old labels to new ones
Rename(df, m) ==
    Frame([k \in 1..Len(df.columns) |->
              IF df.columns[k] \in DOMAIN m THEN m[df.columns[k]] ELSE df.columns[k]],
          df.rows)

extract_debitor_details(df_deb) ==
    LET g == Grouped(df_deb, {"DB_PARTIC_NAME", "TR_STATUS_NAME"})
        index == PivotIndex(g, "DB_PARTIC_NAME")
        \* lines 156-157: one column per status value, sorted
        statuses == SelectSeq(StatusOrder,
                        LAMBDA s : \E r \in 1..Len(g) : g[r].TR_STATUS_NAME = s)
    IN  \* line 158: .loc[:, ["DB_PARTIC_NAME", "Posted"]]
        IF "Posted" \notin Range(statuses) THEN Raise("KeyError")
        ELSE Return(Rename(FillZero(
                 Frame(<<"DB_PARTIC_NAME", "Posted">>,
                       [r \in 1..Len(index) |->
                           <<Text(index[r]),
                             PivotCell(g, "DB_PARTIC_NAME", index[r],
                                       <<"TR_STATUS_NAME">>, <<"Posted">>)>>])),
                 [c \in {"DB_PARTIC_NAME", "Posted"} |->
                     IF c = "Posted" THEN "Sent Posted" ELSE "PARTICIPANT_NAME"]))

-----------------------------------------------------------------------------
(* extract_creditor_details *)

\* lines 131-138: the label of the pivot column item = (status, motive)
ColName(item) ==
    LET sub_status == StripQuotes(RsplitDotHead(item[2]))
    IN  (IF item[1] \in DOMAIN STATUSES THEN STATUSES[item[1]] ELSE "")
        \o (IF sub_status \in DOMAIN SUB_STATUSES THEN SUB_STATUSES[sub_status] ELSE "")

\* the number in a count cell
Val(c) == IF c.t = "num" THEN c.n ELSE 0

\* faulty variant: of the columns sharing a label only the last one counts
RowSumDistinctLabels(df, r) ==
    SumSeq([k \in 1..Len(df.columns) |->
               IF IsNumeric(df, k) /\ \A j \in (k + 1)..Len(df.columns) :
                                          df.columns[j] # df.columns[k]
               THEN Val(df.rows[r][k]) ELSE 0])

\* line 143: df.sum(numeric_only=True, axis=1) for row r: every numeric
\* column counts, whatever its label
RowSum(df, r) ==
    SumSeq([k \in 1..Len(df.columns) |->
               IF IsNumeric(df, k) THEN Val(df.rows[r][k]) ELSE 0])

\* the closest hundredths to num/den, the even one of two equally close
\* ('{0:.2f}' rounds the binary value of a float to nearest, ties to even)
RoundHalfEven(num, den) ==
    LET q == num \div den
        r == num % den
    IN  IF 2 * r < den THEN q
        ELSE IF 2 * r > den THEN q + 1
        ELSE IF q % 2 = 0 THEN q ELSE q + 1

\* lines 144-145: '{0:.2f}%'.format(posted / total * 100); 0 / 0 is nan.
\* A tie between two hundredths needs a total of 32 or more, and the
\* quotient is then an exact binary fraction
SuccessText(posted, total) ==
    IF total = 0 THEN PctNaN ELSE Pct(RoundHalfEven(10000 * posted, total))

\* df with the column at position k moved to position 2 (pop, insert(1, ..))
Relocate(df, k) ==
    LET move(s) == <<s[1], s[k]>> \o RemoveAt(Tail(s), k - 1)
    IN  Frame(move(df.columns), [r \in 1..Len(df.rows) |-> move(df.rows[r])])

\* df with one more column
AddColumn(df, label, cells) ==
    Frame(Append(df.columns, label),
          [r \in 1..Len(df.rows) |-> Append(df.rows[r], cells[r])])

extract_creditor_details(df_cred) ==
    LET key == <<"TR_STATUS_NAME", "REJECT_MOTIVE_DESCRITION">>
        g == Grouped(df_cred, {"CR_PARTIC_NAME"} \cup Range(key))
        index == PivotIndex(g, "CR_PARTIC_NAME")
        \* lines 125-126: one column per (status, motive) pair, sorted;
        \* reset_index puts the participant column first
        pairs == SelectSeq(PairOrder,
                     LAMBDA p : \E r \in 1..Len(g) :
                         g[r].TR_STATUS_NAME = p[1] /\ g[r].REJECT_MOTIVE_DESCRITION = p[2])
        cols == <<<<"CR_PARTIC_NAME", "">>>> \o pairs
        pivot == FillZero(Frame(cols,
                     [r \in 1..Len(index) |->
                         <<Text(index[r])>> \o
                         [k \in 1..Len(pairs) |->
                             PivotCell(g, "CR_PARTIC_NAME", index[r], key, pairs[k])]]))
        \* lines 128-140
        named == Frame([k \in 1..Len(cols) |-> ColName(cols[k])], pivot.rows)
        posted == Positions(named.columns, "Posted")
    IN  \* line 141: pop("Posted") of a label no column has
        IF posted = {} THEN Raise("KeyError")
        \* line 142: pop gave a frame of all the "Posted" columns: no .name
        ELSE IF Cardinality(posted) > 1 THEN Raise("AttributeError")
        ELSE LET moved == Relocate(named, CHOOSE k \in posted : TRUE)
                 total == AddColumn(moved, "Grand Total",
                              [r \in 1..Len(moved.rows) |-> Num(RowSum(moved, r))])
                 gt == Len(total.columns)
                 success == AddColumn(total, "Success",
                                [r \in 1..Len(total.rows) |->
                                    SuccessText(Val(total.rows[r][2]),
                                                Val(total.rows[r][gt]))])
             IN  Return(Rename(success,
                     [c \in {"CR_PARTIC_NAME", "Posted"} |->
                         IF c = "Posted" THEN "Received Posted" ELSE "PARTICIPANT_NAME"]))

-----------------------------------------------------------------------------
(* post_processing *)

\* the position of the column labelled c (the first, should there be more)
ColPos(df, c) == CHOOSE k \in Positions(df.columns, c) :
                     \A j \in Positions(df.columns, c) : k <= j

\* the participant names a frame holds in column k
Keys(df, k) == {df.rows[r][k].s : r \in 1..Len(df.rows)}

\* faulty variant: how='left'
JoinKeysLeft(l, kl, r, kr) ==
    SelectSeq(NameOrder, LAMBDA n : n \in Keys(l, kl))

\* how='outer': the union of the keys of both frames, sorted
JoinKeys(l, kl, r, kr) ==
    SelectSeq(NameOrder, LAMBDA n : n \in Keys(l, kl) \cup Keys(r, kr))

\* the row of df whose column k holds the name n; NaN cells (and the name)
\* when df has no such row
RowOf(df, k, n) ==
    IF n \in Keys(df, k)
    THEN df.rows[CHOOSE r \in 1..Len(df.rows) : df.rows[r][k].s = n]
    ELSE [j \in 1..Len(df.columns) |-> IF j = k THEN Text(n) ELSE NaN]

\* line 95: df1.merge(df2, how='outer', on=c)
Merge(df1, df2, c) ==
    LET kl == ColPos(df1, c)
        kr == ColPos(df2, c)
        keys == JoinKeys(df1, kl, df2, kr)
    IN  Frame(df1.columns \o RemoveAt(df2.columns, kr),
              [j \in 1..Len(keys) |->
                  RowOf(df1, kl, keys[j]) \o RemoveAt(RowOf(df2, kr, keys[j]), kr)])

\* faulty variant: the last participant row is left out of the sum
ColSumSkipLast(df, k) ==
    SumSeq([r \in 1..(Len(df.rows) - 1) |-> Val(df.rows[r][k])])

\* line 96: df.sum(numeric_only=True, axis=0) for the numeric column k
ColSum(df, k) == SumSeq([r \in 1..Len(df.rows) |-> Val(df.rows[r][k])])

\* faulty variant: the zeros stay
BlankNothing(df) == df

\* line 97: df[df.eq(0)] = np.nan
BlankZeros(df) ==
    Frame(df.columns,
          [r \in 1..Len(df.rows) |->
              [k \in 1..Len(df.rows[r]) |->
                  IF df.rows[r][k] = Num(0) THEN NaN ELSE df.rows[r][k]]])

\* the hundredths closest to num/den; on a tie the float mean lies within
\* an ulp of the midpoint and '{:.2f}' gives either neighbour
RoundChoices(num, den) ==
    LET q == num \div den
        r == num % den
    IN  IF 2 * r < den THEN {q}
        ELSE IF 2 * r > den THEN {q + 1}
        ELSE {q, q + 1}

\* the cells .str.replace('%', '').astype(float) turns into a number
Parsed(col) == SelectSeq(col, LAMBDA c : c.t = "pct" /\ c.s = "")

\* faulty variant: the blank cells of the participant rows count as 0
AvgSuccessOverAllRows(col) ==
    LET nums == Parsed(col)
    IN  IF Len(col) <= 1 THEN {PctNaN}
        ELSE {Pct(q) : q \in RoundChoices(SumSeq([k \in 1..Len(nums) |-> nums[k].n]),
                                          Len(col) - 1)}

\* lines 99-100: "{:.2f}%".format(mean of the parsed Success column);
\* mean skips the NaN cells, and the mean of none is nan
AvgSuccess(col) ==
    LET nums == Parsed(col)
    IN  IF nums = <<>> THEN {PctNaN}
        ELSE {Pct(q) : q \in RoundChoices(SumSeq([k \in 1..Len(nums) |-> nums[k].n]),
                                          Len(nums))}

\* the frame with the cell of row r, column k set to c
SetCell(df, r, k, c) == Frame(df.columns, [df.rows EXCEPT ![r][k] = c])

\* the results post_processing(df1, df2) can give
post_processing(df1, df2) ==
    IF \/ "PARTICIPANT_NAME" \notin Range(df1.columns)
       \/ "PARTICIPANT_NAME" \notin Range(df2.columns)
    THEN {Raise("KeyError")}
    ELSE
    LET df_merged == FillZero(Merge(df1, df2, "PARTICIPANT_NAME"))
        numeric == {k \in 1..Len(df_merged.columns) : IsNumeric(df_merged, k)}
        \* line 96: the new row 'Total': the sums, NaN in the other columns
        total == [k \in 1..Len(df_merged.columns) |->
                     IF k \in numeric THEN Num(ColSum(df_merged, k)) ELSE NaN]
    IN  \* line 96: .loc['Total'] = sums reindexes the sums on the columns,
        \* which pandas refuses when two sums carry the same label
        IF \E j, k \in numeric : j # k /\ df_merged.columns[j] = df_merged.columns[k]
        THEN {Raise("ValueError")}
        ELSE IF "Success" \notin Range(df_merged.columns) THEN {Raise("KeyError")}
        ELSE LET blanked == BlankZeros(Frame(df_merged.columns,
                                             Append(df_merged.rows, total)))
                 last == Len(blanked.rows)
                 named == SetCell(blanked, last, 1, Text("GRAND TOTAL"))
             IN  { Return(SetCell(named, last, Len(named.columns), avg)) :
                     avg \in AvgSuccess(Column(named, ColPos(named, "Success"))) }

-----------------------------------------------------------------------------
(* __main__ *)

Init ==
    /\ pc = "start"
    /\ files = <<>>
    /\ i = 0
    /\ data = <<>>
    /\ df_debit = EmptyFrame
    /\ df_credit = EmptyFrame
    /\ df_report = EmptyFrame
    /\ written = {}
    /\ failed = "none"
    /\ err = "none"

\* faulty variant: the exception is caught and the report still written
AbortLogged(stage, e) ==
    /\ pc' = "save"
    /\ failed' = stage
    /\ err' = e

\* an exception nothing catches ends the run where it was raised
Abort(stage, e) ==
    /\ pc' = "aborted"
    /\ failed' = stage
    /\ err' = e

\* lines 197-199: both directories must exist
CheckPaths ==
    /\ pc = "start"
    /\ \E source_exists, target_exists \in BOOLEAN :
          IF source_exists /\ target_exists
          THEN pc' = "glob" /\ UNCHANGED <<failed, err>>
          ELSE Abort("paths", "AssertionError")
    /\ UNCHANGED <<files, i, data, df_debit, df_credit, df_report, written>>

\* lines 200-201: the sheets of the source folder, at least one: up to
\* MaxFiles sheets holding up to MaxRows rows together
Glob ==
    /\ pc = "glob"
    /\ \E s \in SeqsUpTo(RowPool, MaxRows), n \in 0..MaxFiles :
          \E c \in Cuts(s, n), b \in [1..n -> BOOLEAN] :
             \* a sheet lacking a required column is modelled without rows
             /\ \A k \in 1..n : b[k] => c[k - 1] = c[k]
             /\ files' = Folder(s, n, c, b)
             /\ IF n > 0
                THEN pc' = "merge" /\ UNCHANGED <<failed, err>>
                ELSE Abort("glob", "AssertionError")
    /\ UNCHANGED <<i, data, df_debit, df_credit, df_report, written>>

\* lines 172-177: one turn of the loop of merge_files
MergeFile ==
    /\ pc = "merge"
    /\ i < Len(files)
    /\ \E still_there \in BOOLEAN :
          LET temp_df == filter_file(files[i + 1])
          IN  IF ~still_there
              THEN Abort("merge", "FileNotFoundError") /\ UNCHANGED <<i, data>>
              ELSE IF temp_df.raised # "none"
              THEN Abort("merge", temp_df.raised) /\ UNCHANGED <<i, data>>
              ELSE /\ data' = fillna(data \o temp_df.value, "")
                   /\ i' = i + 1
                   /\ UNCHANGED <<pc, failed, err>>
    /\ UNCHANGED <<files, df_debit, df_credit, df_report, written>>

\* line 178: merge_files returns
MergeReturn ==
    /\ pc = "merge"
    /\ i = Len(files)
    /\ pc' = "debit"
    /\ UNCHANGED <<files, i, data, df_debit, df_credit, df_report, written, failed, err>>

\* line 205
Debit ==
    /\ pc = "debit"
    /\ LET res == extract_debitor_details(data)
       IN  IF res.raised # "none"
           THEN Abort("debit", res.raised) /\ UNCHANGED df_debit
           ELSE df_debit' = res.value /\ pc' = "credit" /\ UNCHANGED <<failed, err>>
    /\ UNCHANGED <<files, i, data, df_credit, df_report, written>>

\* line 206
Credit ==
    /\ pc = "credit"
    /\ LET res == extract_creditor_details(data)
       IN  IF res.raised # "none"
           THEN Abort("credit", res.raised) /\ UNCHANGED df_credit
           ELSE df_credit' = res.value /\ pc' = "post" /\ UNCHANGED <<failed, err>>
    /\ UNCHANGED <<files, i, data, df_debit, df_report, written>>

\* line 208
Post ==
    /\ pc = "post"
    /\ \E res \in post_processing(df_debit, df_credit) :
          IF res.raised # "none"
          THEN Abort("post", res.raised) /\ UNCHANGED df_report
          ELSE df_report' = res.value /\ pc' = "save" /\ UNCHANGED <<failed, err>>
    /\ UNCHANGED <<files, i, data, df_debit, df_credit, written>>

\* line 82: save_report writes the csv
SaveCsv ==
    /\ pc = "save"
    /\ written' = written \cup {"3_hours.csv"}
    /\ pc' = "save_xlsx"
    /\ UNCHANGED <<files, i, data, df_debit, df_credit, df_report, failed, err>>

\* lines 83-85: then the workbook
SaveXlsx ==
    /\ pc = "save_xlsx"
    /\ written' = written \cup {"3_hours.xlsx"}
    /\ pc' = "done"
    /\ UNCHANGED <<files, i, data, df_debit, df_credit, df_report, failed, err>>

Next ==
    \/ CheckPaths
    \/ Glob
    \/ MergeFile
    \/ MergeReturn
    \/ Debit
    \/ Credit
    \/ Post
    \/ SaveCsv
    \/ SaveXlsx

Spec == Init /\ [][Next]_vars

-----------------------------------------------------------------------------
(* Properties *)

\* merge_files has returned
Merged == pc \in {"debit", "credit", "post", "save", "save_xlsx", "done"}
              \/ failed \in {"debit", "credit", "post"}
\* extract_debitor_details has been called
DebitCalled == pc \in {"credit", "post", "save", "save_xlsx", "done"}
                   \/ failed \in {"debit", "credit", "post"}
\* extract_creditor_details has returned a frame
CreditDone == pc \in {"post", "save", "save_xlsx", "done"} \/ failed = "post"
\* post_processing has returned a frame
PostDone == pc \in {"save", "save_xlsx", "done"}

\* the number of rows of the corpus whose column f holds v
CountRows(f, v) == Cardinality({k \in 1..Len(data) : data[k][f] = v})

\* the number of rows of the corpus with status "Posted" whose column f
\* holds v
CountPosted(f, v) ==
    Cardinality({k \in 1..Len(data) :
                    data[k][f] = v /\ data[k].TR_STATUS_NAME = "Posted"})

RECURSIVE Total(_, _, _)
\* f(lo) + ... + f(hi)
Total(f, lo, hi) == IF lo > hi THEN 0 ELSE f[lo] + Total(f, lo + 1, hi)

\* the participant rows of the report: all but the last
Participants == 1..(Len(df_report.rows) - 1)

\* the number a report cell stands for, a blank one for none
Shown(c) == IF c.t = "num" THEN c.n ELSE 0

Excluded == {"CSDC", "PMCT"}

RECURSIVE Flatten(_)
\* the sequences of ss one after the other
Flatten(ss) == IF ss = <<>> THEN <<>> ELSE Head(ss) \o Flatten(Tail(ss))

\* the rows of the sheets appended so far that carry no excluded code
KeptRows ==
    Flatten([k \in 1..i |->
                SelectSeq(files[k].rows, LAMBDA r : r.BANK_OP_CODE \notin Excluded)])

\* C1: at every point of the loop of merge_files the corpus holds no row
\* with BANK_OP_CODE "CSDC" or "PMCT", and holds every other row of the
\* sheets appended so far, in sheet order then row order (a missing value
\* of a row showing as the empty string)
C1_CorpusIsFilteredConcatenation ==
    /\ \A k \in 1..Len(data) : data[k].BANK_OP_CODE \notin Excluded
    /\ Len(data) = Len(KeptRows)
    /\ \A k \in 1..Len(data) : \A f \in DOMAIN data[k] :
          data[k][f] = IF KeptRows[k][f] = NA THEN "" ELSE KeptRows[k][f]

C1_Witness ==
    /\ pc = "debit"
    /\ Len(files) = 2
    /\ \E r \in Range(files[1].rows) : r.BANK_OP_CODE \in Excluded
    /\ \E r \in Range(files[1].rows) : r.BANK_OP_CODE \notin Excluded
    /\ files[2].rows # <<>>
    /\ Len(data) = 2

\* C2: once the Debtor Aggregator has been called on the corpus, its result
\* has exactly one row per distinct DB_PARTIC_NAME of the corpus, whose
\* "Sent Posted" is the number of rows of that debtor with status "Posted"
\* (0 when it has none)
C2_OneRowPerDebtor ==
    DebitCalled =>
        LET debtors == {data[k].DB_PARTIC_NAME : k \in 1..Len(data)}
        IN  /\ Len(df_debit.rows) = Cardinality(debtors)
            /\ \A d \in debtors : \E r \in 1..Len(df_debit.rows) :
                  /\ df_debit.rows[r][1] = Text(d)
                  /\ df_debit.rows[r][2] =
                        Num(CountPosted("DB_PARTIC_NAME", d))

\* the position of the "Grand Total" column of the Creditor Aggregate
GT == Len(df_credit.columns) - 1

\* C3: in every row of the Creditor Aggregate "Grand Total" is the sum of
\* all the count columns of the row (those between the participant name
\* and "Grand Total"), the columns with an empty, partial or repeated label
\* included
C3_GrandTotalIsRowSum ==
    CreditDone =>
        \A r \in 1..Len(df_credit.rows) :
            df_credit.rows[r][GT] =
                Num(Total([k \in 2..(GT - 1) |-> df_credit.rows[r][k].n], 2, GT - 1))

C3_Witness ==
    /\ pc = "post"
    /\ \E j, k \in 3..(GT - 1) :
          /\ j < k
          /\ df_credit.columns[j] = df_credit.columns[k]
          /\ \E r \in 1..Len(df_credit.rows) :
                df_credit.rows[r][j].n > 0 /\ df_credit.rows[r][k].n > 0

\* C4: for every creditor c of the corpus the Creditor Aggregate has a row
\* whose "Received Posted" is the number of rows with creditor c and status
\* "Posted" and whose "Success" is Received Posted / Grand Total x 100 with
\* two decimals, whatever the reject motives of the rows
C4_ReceivedPostedCountsPosted ==
    CreditDone =>
        \A c \in {data[k].CR_PARTIC_NAME : k \in 1..Len(data)} :
            \E r \in 1..Len(df_credit.rows) :
                LET posted == CountPosted("CR_PARTIC_NAME", c)
                    all == CountRows("CR_PARTIC_NAME", c)
                IN  /\ df_credit.rows[r][1] = Text(c)
                    /\ df_credit.rows[r][2] = Num(posted)
                    /\ df_credit.rows[r][GT] = Num(all)
                    /\ df_credit.rows[r][GT + 1].t = "pct"
                    /\ df_credit.rows[r][GT + 1].s = ""
                    /\ 2 * (df_credit.rows[r][GT + 1].n * all - 10000 * posted) <= all
                    /\ 2 * (10000 * posted - df_credit.rows[r][GT + 1].n * all) <= all

\* the columns of the report that hold numbers: all but the participant
\* name (the first) and "Success" (the last)
NumberColumns == 2..(Len(df_report.columns) - 1)

\* the last row of the report
TotalRow == df_report.rows[Len(df_report.rows)]

\* C5: the first cell of the last row of the Reconciled Report is "GRAND
\* TOTAL", and each of its number cells is the sum of that column over all
\* the participant rows above it
C5_GrandTotalRowIsColumnSum ==
    PostDone =>
        /\ TotalRow[1] = Text("GRAND TOTAL")
        /\ \A k \in NumberColumns :
              TotalRow[k] =
                  Num(Total([r \in Participants |-> Shown(df_report.rows[r][k])],
                            1, Len(df_report.rows) - 1))

C5_Witness ==
    /\ pc = "done"
    /\ Len(df_report.rows) >= 4
    /\ \E k \in NumberColumns :
          /\ Cardinality({r \in Participants : Shown(df_report.rows[r][k]) > 0}) >= 2
          /\ \E r \in Participants : df_report.rows[r][k] = NaN

\* the participant names of a frame of participant rows, in row order
Names(rows) == [r \in 1..Len(rows) |-> rows[r][1].s]

\* C6: apart from the GRAND TOTAL row the report has exactly one row for
\* each name of the Debtor Aggregate or of the Creditor Aggregate and no
\* other row
C6_OneRowPerParticipant ==
    PostDone =>
        LET names == SubSeq(Names(df_report.rows), 1, Len(df_report.rows) - 1)
        IN  /\ \A j, k \in 1..Len(names) : j # k => names[j] # names[k]
            /\ Range(names) = Range(Names(df_debit.rows)) \cup Range(Names(df_credit.rows))

C6_Witness ==
    /\ pc = "done"
    /\ Range(Names(df_debit.rows)) \ Range(Names(df_credit.rows)) # {}
    /\ Range(Names(df_credit.rows)) \ Range(Names(df_debit.rows)) # {}
    /\ Range(Names(df_debit.rows)) \cap Range(Names(df_credit.rows)) # {}

\* the participant rows of the report that show a Success percentage
WithSuccess ==
    {r \in Participants : df_report.rows[r][Len(df_report.columns)].t = "pct"}

\* the sum of the Success percentages (in hundredths) of the rows R
RECURSIVE SuccessSum(_)
SuccessSum(R) ==
    IF R = {} THEN 0
    ELSE LET r == CHOOSE x \in R : TRUE
         IN  df_report.rows[r][Len(df_report.columns)].n + SuccessSum(R \ {r})

\* C7: the Success cell of the GRAND TOTAL row is the arithmetic mean of
\* the Success percentages the participant rows show, as a percentage with
\* two decimals (within half a hundredth of the mean)
C7_TotalSuccessIsMean ==
    PostDone =>
        LET cell == TotalRow[Len(df_report.columns)]
            n == Cardinality(WithSuccess)
            sum == SuccessSum(WithSuccess)
        IN  /\ n > 0
            /\ cell.t = "pct"
            /\ cell.s = ""
            /\ 2 * (cell.n * n - sum) <= n
            /\ 2 * (sum - cell.n * n) <= n

\* the report's "Received Posted" and "Grand Total" columns
ReceivedCol == ColPos(df_report, "Received Posted")
GrandCol == ColPos(df_report, "Grand Total")

\* a report with a participant that shows no Success, two that show
\* different ones, and a mean that is not total Posted / total Grand Total
C7_Witness ==
    /\ pc = "done"
    /\ Participants \ WithSuccess # {}
    /\ \E a, b \in WithSuccess :
          df_report.rows[a][Len(df_report.columns)] # df_report.rows[b][Len(df_report.columns)]
    /\ LET cell == TotalRow[Len(df_report.columns)]
       IN  2 * (cell.n * TotalRow[GrandCol].n - 10000 * TotalRow[ReceivedCol].n)
              > TotalRow[GrandCol].n
           \/ 2 * (10000 * TotalRow[ReceivedCol].n - cell.n * TotalRow[GrandCol].n)
              > TotalRow[GrandCol].n

\* C8: an output file exists only after merge_files, both aggregators and
\* post_processing have returned; a run in which a stage or a check before
\* it failed has stopped there for good and has written no file
C8_WriterOnlyAfterPipeline ==
    /\ written # {} =>
          /\ failed = "none"
          /\ pc \in {"save_xlsx", "done"}
          /\ i = Len(files) /\ i > 0
          /\ df_debit # EmptyFrame /\ df_credit # EmptyFrame /\ df_report # EmptyFrame
    /\ failed # "none" =>
          /\ pc = "aborted"
          /\ written = {}
          /\ ~ENABLED Next
    /\ "3_hours.xlsx" \in written => "3_hours.csv" \in written

C8_Witness ==
    /\ failed = "post"
    /\ pc = "aborted"
    /\ written = {}
    /\ df_debit # EmptyFrame /\ df_credit # EmptyFrame

\* the value the aggregates hold for the participant of report row r in
\* report column k: 0 where the participant is not in the aggregate
Joined(r, k) ==
    LET name == df_report.rows[r][1].s
        nd == Len(df_debit.columns)
        from(df, c) == IF \E x \in 1..Len(df.rows) : df.rows[x][1].s = name
                       THEN df.rows[CHOOSE x \in 1..Len(df.rows) :
                                        df.rows[x][1].s = name][c]
                       ELSE Num(0)
    IN  IF k <= nd THEN from(df_debit, k) ELSE from(df_credit, k - nd + 1)

\* C9: in the report no cell of a participant row is the number 0: a cell
\* is blank exactly where the joined and filled value is 0 (participant
\* absent from that aggregate, or a count of 0) and shows that value
\* elsewhere; the GRAND TOTAL row holds the sums of the values before the
\* blanking
C9_ZerosAreBlank ==
    PostDone =>
        /\ \A r \in Participants : \A k \in 2..Len(df_report.columns) :
              /\ df_report.rows[r][k] # Num(0)
              /\ df_report.rows[r][k] =
                    IF Joined(r, k) = Num(0) THEN NaN ELSE Joined(r, k)
        /\ \A k \in NumberColumns :
              TotalRow[k] = Num(Total([r \in Participants |-> Joined(r, k).n],
                                      1, Len(df_report.rows) - 1))

C9_Witness ==
    /\ pc = "done"
    /\ \E r \in Participants : df_report.rows[r][1].s \notin Range(Names(df_credit.rows))
    /\ \E r \in Participants : df_report.rows[r][1].s \notin Range(Names(df_debit.rows))
    /\ \E r \in Participants, k \in 4..(Len(df_report.columns) - 2) :
          /\ df_report.rows[r][1].s \in Range(Names(df_credit.rows))
          /\ df_report.rows[r][k] = NaN

\* C10: every row of the Creditor Aggregate has a Grand Total of at least
\* 1, the number of rows of the corpus with that creditor, and a Success
\* that is a number (never "nan%")
C10_GrandTotalPositive ==
    CreditDone =>
        /\ Range(Names(df_credit.rows)) = {data[k].CR_PARTIC_NAME : k \in 1..Len(data)}
        /\ \A r \in 1..Len(df_credit.rows) :
              /\ df_credit.rows[r][GT].n >= 1
              /\ df_credit.rows[r][GT] =
                    Num(CountRows("CR_PARTIC_NAME", df_credit.rows[r][1].s))
              /\ df_credit.rows[r][GT + 1].t = "pct"
              /\ df_credit.rows[r][GT + 1].s = ""

\* a Creditor Aggregate built from sheets with missing cells
C10_Witness ==
    /\ pc = "post"
    /\ \E f \in Range(files) : \E x \in Range(f.rows) :
          x.ENDTOENDID = NA /\ x.BANK_OP_CODE \notin Excluded
    /\ \E f \in Range(files) : \E x \in Range(f.rows) :
          x.REJECT_MOTIVE_DESCRITION = NA /\ x.BANK_OP_CODE \notin Excluded
    /\ \E r \in 1..Len(df_credit.rows) : df_credit.rows[r][GT].n >= 2

====
